---- MODULE Spec2Model ----
(***************************************************************************)
(* The kqueue event handler of runtime/bin/eventhandler_macos.cc: one      *)
(* worker thread that multiplexes descriptor readiness and timers, driven  *)
(* through a wakeup pipe written by foreign threads.                       *)
(*                                                                         *)
(* The worker is modelled step by step: the loop head (GetTimeout), the    *)
(* kevent query (with HandleTimeout), one step per readiness event of the  *)
(* batch, the read of the wakeup pipe, and one step per interrupt message. *)
(* Event masks are sets of event bits (1 << kInEvent is {kInEvent}, | is   *)
(* \cup, & is \cap).  ASSERTs compile to nothing in a release build: a     *)
(* failing one is recorded in `failed` and execution goes on.              *)
(*                                                                         *)
(* DescriptorInfoSingle / DescriptorInfoMultiple, the TimeoutQueue and the *)
(* ListeningSocketRegistry are declared in headers that are not part of    *)
(* the sources at hand; their operations follow the design document.       *)
(***************************************************************************)
EXTENDS Integers, Sequences, FiniteSets, TLC

VARIABLES
  pc,              \* position of the worker thread
  shutdown_,       \* EventHandlerImplementation::shutdown_
  socket_map,      \* socket_map_: fd -> DescriptorInfo, for the fds present
  kq,              \* the kernel's registrations: fd -> set of filters
  timeout_queue,   \* timeout_queue_: port -> deadline, for the ports present
  sockfd,          \* Socket::fd() of every socket object, -1 once closed
  registry,        \* ListeningSocketRegistry: the open listening sockets
  pipe,            \* the wakeup pipe interrupt_fds_: messages written, unread
  events,          \* the rest of the batch kevent returned
  interrupt_seen,  \* HandleEvents' local interrupt_seen
  msgs,            \* the rest of the messages read by HandleInterruptFd
  millis,          \* the timeout given to the last kevent query
  now,             \* TimerUtils::GetCurrentMonotonicMillis()
  lastPost,        \* what the last step posted: sequence of [port, value]
  lastOp,          \* what the last step did (kind, subject, outcome)
  destroyed,       \* port -> number of DESTROYED events posted to it
  shutdownDone,    \* number of NotifyShutdownDone() calls
  failed,          \* the ASSERTs that have failed so far
  sent,            \* writer -> number of messages written to the pipe
  applied,         \* writer -> number of its messages the worker applied
  scenario,        \* what the foreign threads of this run work with
  refs,            \* references held on each Socket for messages in flight
  delivered        \* fds of connected sockets with an event posted since their
                   \* last SET_MASK, RETURN_TOKEN or CLOSE was applied

vars == <<pc, shutdown_, socket_map, kq, timeout_queue, sockfd, registry, pipe,
          events, interrupt_seen, msgs, millis, now, lastPost, lastOp,
          destroyed, shutdownDone, failed, sent, applied, scenario, refs,
                 delivered>>

-----------------------------------------------------------------------------
(* Bounds of the model.                                                    *)

\* Messages foreign threads write in one run.
MaxSends == 3
\* Messages one read of the pipe takes (kInterruptMessageSize in the code),
\* scaled down so that a backlog larger than one read occurs.
MAX_MESSAGES == 2
\* The largest 32-bit millisecond count, scaled down to the model's clock.
kMaxInt32 == 3
\* The clock stops advancing here.
MaxTime == 2

-----------------------------------------------------------------------------
(* Event bits, filters, commands, ids.                                     *)

kInEvent == "IN"
kOutEvent == "OUT"
kErrorEvent == "ERROR"
kCloseEvent == "CLOSE"
kDestroyedEvent == "DESTROYED"

EVFILT_READ == "READ"
EVFILT_WRITE == "WRITE"

kSetEventMaskCommand == "SET_MASK"
kCloseCommand == "CLOSE_CMD"
kShutdownReadCommand == "SHUTDOWN_READ"
kShutdownWriteCommand == "SHUTDOWN_WRITE"
kReturnTokenCommand == "RETURN_TOKEN"

kTimerId == "TIMER_ID"
kShutdownId == "SHUTDOWN_ID"
ILLEGAL_PORT == 0
kInfinityTimeout == -1
kClosedFd == -1

\* The value DartUtils::PostNull posts.
PostedNull == {"null"}

\* Tokens a subscriber starts with.
kTokenCount == 1

-----------------------------------------------------------------------------
(* The objects of a run: one connected socket and one listening fd shared  *)
(* by two socket objects of different isolates.                            *)

Sockets == {"S1", "LA", "LB", "LC"}
ListeningSockets == {"LA", "LB", "LC"}
SocketOsFd == [s \in Sockets |-> IF s = "S1" THEN 1 ELSE 2]
SocketPort ==
  [s \in Sockets |->
     CASE s = "S1" -> 1 [] s = "LA" -> 2 [] s = "LB" -> 3 [] s = "LC" -> 4]
Fds == {1, 2}
SocketPorts == {1, 2, 3, 4}
TimerPorts == {8, 9}
Deadlines == {0, 1, 5}
TokenCounts == {1, 2}
Writers == {"W1", "W2"}

-----------------------------------------------------------------------------
(* Sequences.                                                              *)

RemoveAt(s, i) == [k \in 1..(Len(s) - 1) |-> IF k < i THEN s[k] ELSE s[k + 1]]

Take(s, n) == [k \in 1..(IF n < Len(s) THEN n ELSE Len(s)) |-> s[k]]

Drop(s, n) == [k \in 1..(IF n < Len(s) THEN Len(s) - n ELSE 0) |-> s[k + n]]

Min(S) == CHOOSE x \in S : \A y \in S : x <= y

-----------------------------------------------------------------------------
(* DescriptorInfo: the single and the multiple variant.                    *)

NewDescriptorInfo(fd, is_listening) ==
  [fd |-> fd, listening |-> is_listening, subs |-> <<>>, cursor |-> 1,
   tracked |-> FALSE]

\* Effective mask: the requested IN/OUT bits of the subscribers with tokens.
Mask(di) ==
  UNION {di.subs[i].mask \cap {kInEvent, kOutEvent} :
           i \in {k \in DOMAIN di.subs : di.subs[k].tokens > 0}}

HasReadEvent(di) == kInEvent \in Mask(di)

HasWriteEvent(di) == kOutEvent \in Mask(di)

PortIndex(di, port) == {i \in DOMAIN di.subs : di.subs[i].port = port}

SetPortAndMask(di, port, mask) ==
  IF PortIndex(di, port) # {}
  THEN [di EXCEPT !.subs =
          [i \in DOMAIN di.subs |->
             IF di.subs[i].port = port
             THEN [di.subs[i] EXCEPT !.mask = mask] ELSE di.subs[i]]]
  ELSE IF di.listening
       THEN [di EXCEPT !.subs =
               Append(di.subs, [port |-> port, mask |-> mask, tokens |-> kTokenCount])]
       ELSE [di EXCEPT !.subs =
               <<[port |-> port, mask |-> mask, tokens |-> kTokenCount]>>,
             !.cursor = 1]

ReturnTokens(di, port, count) ==
  [di EXCEPT !.subs =
     [i \in DOMAIN di.subs |->
        IF di.subs[i].port = port
        THEN [di.subs[i] EXCEPT !.tokens = @ + count] ELSE di.subs[i]]]

RemovePort(di, port) ==
  IF PortIndex(di, port) = {} THEN di
  ELSE LET i == CHOOSE k \in PortIndex(di, port) : TRUE
           rest == RemoveAt(di.subs, i)
           c == IF i < di.cursor THEN di.cursor - 1 ELSE di.cursor
       IN [di EXCEPT !.subs = rest,
                     !.cursor = IF c > Len(rest) THEN 1 ELSE c]

\* The ring position k steps after the cursor.
RingIndex(di, k) == ((di.cursor - 1 + k) % Len(di.subs)) + 1

Eligible(di, i, events_ready) ==
  /\ di.subs[i].tokens > 0
  /\ di.subs[i].mask \cap events_ready # {}

\* [port, di]: the port to notify and the DescriptorInfo afterwards.
NextNotifyDartPort(di, events_ready) ==
  IF ~di.listening
  THEN [port |-> IF di.subs = <<>> THEN ILLEGAL_PORT ELSE di.subs[1].port,
        di |-> di]
  ELSE LET steps == {k \in 0..(Len(di.subs) - 1) :
                       Eligible(di, RingIndex(di, k), events_ready)}
       IN IF steps = {}
          THEN [port |-> ILLEGAL_PORT, di |-> di]
          ELSE LET i == RingIndex(di, Min(steps))
               IN [port |-> di.subs[i].port,
                   di |-> [di EXCEPT !.subs[i].tokens = @ - 1,
                                     !.cursor = (i % Len(di.subs)) + 1]]

\* [posts, di]: the events posted to every subscriber, their interest cleared.
NotifyAllDartPorts(di, mask) ==
  [posts |-> [i \in DOMAIN di.subs |-> [port |-> di.subs[i].port, value |-> mask]],
   di |-> [di EXCEPT !.subs =
             [i \in DOMAIN di.subs |-> [di.subs[i] EXCEPT !.mask = {}]]]]

-----------------------------------------------------------------------------
(* TimeoutQueue.                                                           *)

HasTimeout(q) == DOMAIN q # {}

CurrentTimeout(q) == Min({q[p] : p \in DOMAIN q})

\* The ports holding the earliest deadline.
CurrentPorts(q) == {p \in DOMAIN q : q[p] = CurrentTimeout(q)}

RemoveTimeout(q, port) == [p \in DOMAIN q \ {port} |-> q[p]]

UpdateTimeout(q, port, timeout) ==
  IF timeout <= 0 THEN RemoveTimeout(q, port)
  ELSE [p \in DOMAIN q \cup {port} |-> IF p = port THEN timeout ELSE q[p]]

-----------------------------------------------------------------------------
(* ListeningSocketRegistry::CloseSafe: the socket's reference on the       *)
(* shared OS socket is dropped; closing is safe when it was the last one.  *)

CloseSafe(reg, socket) ==
  {s \in reg \ {socket} : SocketOsFd[s] = SocketOsFd[socket]} = {}

-----------------------------------------------------------------------------
(* Kernel registration.  Each operator takes the DescriptorInfo and the    *)
(* filters the kernel holds for its fd and yields                          *)
(*   [di, kqf, posts, asserts]                                             *)
(* the two afterwards, the events posted and the ASSERTs that failed.      *)

Filters(di) ==
  (IF HasReadEvent(di) THEN {EVFILT_READ} ELSE {}) \cup
  (IF HasWriteEvent(di) THEN {EVFILT_WRITE} ELSE {})

\* RemoveFromKqueue without di->set_tracked_by_kqueue(false).
RemoveFromKqueueKeepsFlag(di, kqf) ==
  IF ~di.tracked
  THEN [di |-> di, kqf |-> kqf, posts |-> <<>>, asserts |-> {}, calls |-> <<>>]
  ELSE [di |-> di, kqf |-> {}, posts |-> <<>>, asserts |-> {},
        calls |-> <<"EV_DELETE">>]

\* calls: the kevent changes the function submits, in order.
RemoveFromKqueue(di, kqf) ==
  IF ~di.tracked
  THEN [di |-> di, kqf |-> kqf, posts |-> <<>>, asserts |-> {}, calls |-> <<>>]
  ELSE [di |-> [di EXCEPT !.tracked = FALSE], kqf |-> {}, posts |-> <<>>,
        asserts |-> {}, calls |-> <<"EV_DELETE">>]

\* AddToKqueue dropping a refused add: nothing is posted.
AddToKqueueDropsFailure(di, kqf, accepted) ==
  IF ~accepted
  THEN [di |-> di, kqf |-> kqf, posts |-> <<>>, asserts |-> {},
        calls |-> <<"EV_ADD">>]
  ELSE [di |-> [di EXCEPT !.tracked = TRUE], kqf |-> kqf \cup Filters(di),
        posts |-> <<>>, asserts |-> {}, calls |-> <<"EV_ADD">>]

\* accepted: whether the kernel takes the fd (kevent's status is not -1).
AddToKqueue(di, kqf, accepted) ==
  LET asserts == (IF di.tracked THEN {"AddToKqueue: !tracked_by_kqueue"} ELSE {})
                 \cup (IF Filters(di) = {}
                       THEN {"AddToKqueue: HasReadEvent || HasWriteEvent"} ELSE {})
  IN IF ~accepted
     THEN LET n == NotifyAllDartPorts(di, {kCloseEvent})
          IN [di |-> n.di, kqf |-> kqf, posts |-> n.posts, asserts |-> asserts,
              calls |-> <<"EV_ADD">>]
     ELSE [di |-> [di EXCEPT !.tracked = TRUE], kqf |-> kqf \cup Filters(di),
           posts |-> <<>>, asserts |-> asserts, calls |-> <<"EV_ADD">>]

\* UpdateKQueueInstance registering anew whenever there is interest, changed
\* or not.
UpdateKQueueInstanceAlwaysAdds(old_mask, di, kqf, accepted) ==
  LET new_mask == Mask(di)
  IN IF new_mask = {}
     THEN RemoveFromKqueue(di, kqf)
     ELSE LET r == RemoveFromKqueue(di, kqf)
              a == AddToKqueue(r.di, r.kqf, accepted)
          IN [a EXCEPT !.calls = r.calls \o @]

\* UpdateKQueueInstance without its third branch: a changed, still non-empty
\* interest leaves the registration as it was.
UpdateKQueueInstanceKeepsFilters(old_mask, di, kqf, accepted) ==
  LET new_mask == Mask(di)
  IN IF old_mask # {} /\ new_mask = {}
     THEN RemoveFromKqueue(di, kqf)
     ELSE IF old_mask = {} /\ new_mask # {}
     THEN AddToKqueue(di, kqf, accepted)
     ELSE [di |-> di, kqf |-> kqf, posts |-> <<>>, asserts |-> {},
           calls |-> <<>>]

UpdateKQueueInstance(old_mask, di, kqf, accepted) ==
  LET new_mask == Mask(di)
  IN IF old_mask # {} /\ new_mask = {}
     THEN RemoveFromKqueue(di, kqf)
     ELSE IF old_mask = {} /\ new_mask # {}
     THEN AddToKqueue(di, kqf, accepted)
     ELSE IF old_mask # {} /\ new_mask # {} /\ old_mask # new_mask
     THEN LET r == RemoveFromKqueue(di, kqf)
              a == AddToKqueue(r.di, r.kqf, accepted)
          IN [a EXCEPT !.asserts =
                @ \cup (IF di.listening
                        THEN {"UpdateKQueueInstance: !IsListeningSocket"} ELSE {}),
                       !.calls = r.calls \o @]
     ELSE [di |-> di, kqf |-> kqf, posts |-> <<>>, asserts |-> {},
           calls |-> <<>>]

\* Whether UpdateKQueueInstance(old_mask, di) reaches AddToKqueue.
CallsAdd(old_mask, di) ==
  Mask(di) # {} /\ (old_mask = {} \/ old_mask # Mask(di))

-----------------------------------------------------------------------------
(* GetEvents: the event mask of a kevent.                                  *)

\* GetEvents or-ing the error bit into a read event's mask instead of
\* assigning it.
GetEventsOrsError(event, is_listening) ==
  IF is_listening
  THEN LET m == IF event.eof
                THEN (IF event.fflags THEN {kErrorEvent} ELSE {kCloseEvent})
                ELSE {}
       IN IF m = {} THEN {kInEvent} ELSE m
  ELSE IF event.filter = EVFILT_READ
       THEN IF event.eof
            THEN (IF event.fflags THEN {kInEvent, kErrorEvent}
                                  ELSE {kInEvent, kCloseEvent})
            ELSE {kInEvent}
       ELSE IF event.eof /\ event.fflags THEN {kErrorEvent} ELSE {kOutEvent}

GetEvents(event, is_listening) ==
  IF is_listening
  THEN \* only EVFILT_READ is delivered for a listening socket
       LET m == IF event.eof
                THEN (IF event.fflags THEN {kErrorEvent} ELSE {kCloseEvent})
                ELSE {}
       IN IF m = {} THEN {kInEvent} ELSE m
  ELSE IF event.filter = EVFILT_READ
       THEN IF event.eof
            THEN (IF event.fflags THEN {kErrorEvent} ELSE {kInEvent, kCloseEvent})
            ELSE {kInEvent}
       ELSE IF event.eof /\ event.fflags THEN {kErrorEvent} ELSE {kOutEvent}

-----------------------------------------------------------------------------
(* Interrupt messages and the foreign threads that write them.             *)

\* udata of the kevent registered for the read end of the wakeup pipe.
NullUdata == 0
\* Descriptor events ready at one query besides the wakeup pipe.
MaxReady == 2
\* The size of the event array handed to kevent.
kMaxEvents == 16

ListeningFds == {SocketOsFd[s] : s \in ListeningSockets}

Msg(id, port, command, tokens, evs, deadline) ==
  [id |-> id, dart_port |-> port, command |-> command,
   listening |-> id \in ListeningSockets, tokens |-> tokens, events |-> evs,
   deadline |-> deadline, w |-> "", seq |-> 0]

TimerMsgs ==
  {Msg(kTimerId, p, "", 0, {}, d) : p \in TimerPorts, d \in Deadlines}

ShutdownMsgs == {Msg(kShutdownId, 0, "", 0, {}, 0)}

\* The commands sent for a socket.  A listening socket takes no half-close
\* (ASSERT(!di->IsListeningSocket())); the second listening socket sends the
\* plain life cycle: interest in connections, one token back, close.
SocketMsgs(s) ==
  CASE s = "S1" ->
         {Msg(s, SocketPort[s], kSetEventMaskCommand, 0, m, 0) :
            m \in SUBSET {kInEvent, kOutEvent}}
         \cup {Msg(s, p, kCloseCommand, 0, {}, 0) : p \in {SocketPort[s], ILLEGAL_PORT}}
         \cup {Msg(s, SocketPort[s], kReturnTokenCommand, 1, {}, 0)}
         \cup {Msg(s, SocketPort[s], c, 0, {}, 0) :
                 c \in {kShutdownReadCommand, kShutdownWriteCommand}}
    [] s = "LA" ->
         {Msg(s, SocketPort[s], kSetEventMaskCommand, 0, m, 0) :
            m \in {{kInEvent}, {kOutEvent}}}
         \cup {Msg(s, p, kCloseCommand, 0, {}, 0) : p \in {SocketPort[s], ILLEGAL_PORT}}
         \cup {Msg(s, SocketPort[s], kReturnTokenCommand, n, {}, 0) : n \in TokenCounts}
    [] s = "LB" ->
         {Msg(s, SocketPort[s], kSetEventMaskCommand, 0, {kInEvent}, 0),
          Msg(s, SocketPort[s], kReturnTokenCommand, 1, {}, 0),
          Msg(s, SocketPort[s], kCloseCommand, 0, {}, 0)}
    [] s = "LC" ->
         {Msg(s, SocketPort[s], kSetEventMaskCommand, 0, {kInEvent}, 0)}

\* The runs: timers only, the connected socket only, the listening socket
\* shared by two, the listening socket shared by three that each ask for
\* connections.  Every run can shut the handler down.
Scenarios == {"timers", "single", "listening", "ring"}

\* The listening sockets open on the shared fd in a run.
OpenListening(sc) ==
  IF sc = "ring" THEN ListeningSockets ELSE ListeningSockets \ {"LC"}

\* What each foreign thread sends.
WriterMsgs(w) ==
  CASE scenario = "timers" ->
         IF w = "W1" THEN {m \in TimerMsgs : m.dart_port = 8}
         ELSE {m \in TimerMsgs : m.dart_port = 9} \cup ShutdownMsgs
    [] scenario = "single" ->
         IF w = "W1"
         THEN {m \in SocketMsgs("S1") :
                 m.command \notin {kShutdownReadCommand, kShutdownWriteCommand}}
         ELSE {m \in SocketMsgs("S1") :
                 m.command \in {kShutdownReadCommand, kShutdownWriteCommand}}
              \cup ShutdownMsgs
    [] scenario = "listening" ->
         IF w = "W1" THEN SocketMsgs("LA")
         ELSE SocketMsgs("LB") \cup ShutdownMsgs
    [] scenario = "ring" ->
         IF w = "W1"
         THEN {m \in SocketMsgs("LA") \cup SocketMsgs("LB") \cup SocketMsgs("LC") :
                 m.command = kSetEventMaskCommand /\ m.events = {kInEvent}}
         ELSE {m \in SocketMsgs("LA") : m.command = kReturnTokenCommand /\ m.tokens = 1}
              \cup ShutdownMsgs

TotalSent == sent["W1"] + sent["W2"]

-----------------------------------------------------------------------------
(* Initial state: the handler constructed, the worker started.             *)

\* kind: the step; id, fd: the socket and descriptor it was about; command:
\* the command or the event's filter; add: what became of the kernel
\* registration ("ok" or "failed" for AddToKqueue, "removed", "none").
Op(kind, id, fd, command, add) ==
  [kind |-> kind, id |-> id, fd |-> fd, command |-> command, add |-> add]

NoOp == Op("init", "", 0, "", "none")

Init ==
  /\ scenario \in Scenarios
  /\ pc = "loop"
  /\ shutdown_ = FALSE
  /\ socket_map = <<>>
  /\ kq = [fd \in Fds |-> {}]
  /\ timeout_queue = <<>>
  /\ sockfd = SocketOsFd
  /\ registry = OpenListening(scenario)
  /\ pipe = <<>>
  /\ events = <<>>
  /\ interrupt_seen = FALSE
  /\ msgs = <<>>
  /\ millis = kInfinityTimeout
  /\ now = 0
  /\ lastPost = <<>>
  /\ lastOp = NoOp
  /\ destroyed = [p \in SocketPorts \cup {ILLEGAL_PORT} |-> 0]
  /\ shutdownDone = 0
  /\ failed = {}
  /\ sent = [w \in Writers |-> 0]
  /\ applied = [w \in Writers |-> 0]
  /\ refs = [s \in Sockets |-> 0]
  /\ delivered = {}

-----------------------------------------------------------------------------
(* SendData / WakeupHandler: one whole message is written to the pipe      *)
(* (kInterruptMessageSize < PIPE_BUF, so the write is atomic).             *)

\* The reference the sender of a socket message takes for it.
Retain(r, id) == IF id \in Sockets THEN [r EXCEPT ![id] = @ + 1] ELSE r

WakeupHandler(w, m) ==
  /\ TotalSent < MaxSends
  /\ pc # "destroyed"
  /\ pipe' = Append(pipe, [m EXCEPT !.w = w, !.seq = sent[w] + 1])
  /\ sent' = [sent EXCEPT ![w] = @ + 1]
  /\ refs' = Retain(refs, m.id)
  /\ UNCHANGED delivered
  /\ UNCHANGED <<pc, shutdown_, socket_map, kq, timeout_queue, sockfd, registry,
                 events, interrupt_seen, msgs, millis, now, lastPost, lastOp,
                 destroyed, shutdownDone, failed, applied, scenario>>

SendData == \E w \in Writers : \E m \in WriterMsgs(w) : WakeupHandler(w, m)

-----------------------------------------------------------------------------
(* The worker loop.                                                        *)

GetTimeout(q, t) ==
  IF ~HasTimeout(q) THEN kInfinityTimeout
  ELSE LET ms == CurrentTimeout(q) - t IN IF ms < 0 THEN 0 ELSE ms

\* The timeout without if (millis > kMaxInt32) millis = kMaxInt32.
QueryTimeoutNoClamp(q, t) == GetTimeout(q, t)

\* The timeout EventHandlerEntry hands to kevent.
QueryTimeout(q, t) ==
  LET ms == GetTimeout(q, t) IN IF ms > kMaxInt32 THEN kMaxInt32 ELSE ms

\* while (!shutdown_) { millis = GetTimeout(); ... } NotifyShutdownDone();
LoopHead ==
  /\ pc = "loop"
  /\ IF shutdown_
     THEN /\ pc' = "done"
          /\ shutdownDone' = shutdownDone + 1
          /\ lastOp' = Op("done", "", 0, "", "none")
          /\ UNCHANGED millis
     ELSE /\ pc' = "kevent"
          /\ millis' = QueryTimeout(timeout_queue, now)
          /\ lastOp' = Op("timeout", "", 0, "", "none")
          /\ UNCHANGED shutdownDone
  /\ lastPost' = <<>>
  /\ UNCHANGED <<shutdown_, socket_map, kq, timeout_queue, sockfd, registry,
                 pipe, events, interrupt_seen, msgs, now, destroyed, failed,
                 sent, applied, scenario, refs,
                 delivered>>

\* What the kernel can report for the registered descriptors.
ReadySources ==
  {[udata |-> fd, filter |-> f, eof |-> x[1], fflags |-> x[2], freed |-> FALSE] :
     fd \in Fds, f \in {EVFILT_READ, EVFILT_WRITE},
     x \in {<<FALSE, FALSE>>, <<FALSE, TRUE>>, <<TRUE, FALSE>>, <<TRUE, TRUE>>}}

Registered(e) ==
  /\ e.filter \in kq[e.udata]
  /\ e.udata \in ListeningFds => e.filter = EVFILT_READ

InterruptEvent ==
  [udata |-> NullUdata, filter |-> EVFILT_READ, eof |-> FALSE, fflags |-> FALSE,
   freed |-> FALSE]

\* The batches one kevent call can return: the wakeup pipe when it holds
\* messages (it is registered level-triggered), and some of the registered
\* descriptor filters, each at most once, in any order.
Batches ==
  LET src == {e \in ReadySources : Registered(e)}
            \cup (IF pipe # <<>> THEN {InterruptEvent} ELSE {})
      want == IF pipe # <<>> THEN 1 ELSE 0
  IN {b \in UNION {[1..n -> src] : n \in 0..(MaxReady + 1)} :
        /\ Len(b) <= kMaxEvents
        /\ \A i, j \in DOMAIN b :
             i # j => <<b[i].udata, b[i].filter>> # <<b[j].udata, b[j].filter>>
        /\ Cardinality({i \in DOMAIN b : b[i].udata = NullUdata}) = want
        /\ Cardinality({i \in DOMAIN b : b[i].udata # NullUdata}) <= MaxReady}

\* Where HandleEvents goes on: the next event, then the interrupt, then the loop.
AfterEvents(rest, seen) ==
  IF rest # <<>> THEN "events" ELSE IF seen THEN "interrupt" ELSE "loop"

\* The time a kevent call can take.  Without timers the clock is never read.
Elapse == IF scenario = "timers" THEN 0..(MaxTime - now) ELSE {0}

\* HandleTimeout without the test of the time left.
TimerDueAlways(q, t) == HasTimeout(q)

\* HandleTimeout: whether the earliest timer is due at time t.
TimerDue(q, t) == HasTimeout(q) /\ CurrentTimeout(q) - t <= 0

\* kevent returns a batch; HandleTimeout(); HandleEvents starts.
Kevent ==
  /\ pc = "kevent"
  /\ events' \in Batches
  /\ \E d \in Elapse :
       /\ millis # kInfinityTimeout => d <= millis
       /\ events' = <<>> => (millis # kInfinityTimeout /\ d = millis)
       /\ now' = now + d
       /\ interrupt_seen' = FALSE
       /\ pc' = AfterEvents(events', FALSE)
       /\ IF TimerDue(timeout_queue, now')
          THEN \E p \in CurrentPorts(timeout_queue) :
                 /\ lastPost' = <<[port |-> p, value |-> PostedNull]>>
                 /\ timeout_queue' = RemoveTimeout(timeout_queue, p)
                 /\ lastOp' = Op("kevent", "", 0, "fired", "none")
          ELSE /\ lastPost' = <<>>
               /\ lastOp' = Op("kevent", "", 0, "", "none")
               /\ UNCHANGED timeout_queue
  /\ UNCHANGED <<shutdown_, socket_map, kq, sockfd, registry, pipe, msgs,
                 millis, destroyed, shutdownDone, failed, sent, applied, scenario, refs,
                 delivered>>

\* The outcomes of the kevent call in AddToKqueue, where it is reached.
AddOutcomes(old_mask, di) ==
  IF CallsAdd(old_mask, di) THEN BOOLEAN ELSE {TRUE}

\* What UpdateKQueueInstance(old_mask, di) did to the registration.
AddResult(old_mask, di, accepted) ==
  IF CallsAdd(old_mask, di) THEN (IF accepted THEN "ok" ELSE "failed")
  ELSE IF old_mask # {} /\ Mask(di) = {} THEN "removed" ELSE "none"

\* HandleEvents' loop body without the UpdateKQueueInstance that follows the
\* notification.
DispatchEventNoUpdate(di, kqf, event, accepted) ==
  LET event_mask == GetEvents(event, di.listening)
  IN IF kErrorEvent \in event_mask
     THEN LET n == NotifyAllDartPorts(di, event_mask)
          IN [di |-> n.di, kqf |-> kqf, posts |-> n.posts, asserts |-> {},
              add |-> "none"]
     ELSE LET n == NextNotifyDartPort(di, event_mask)
          IN [di |-> n.di, kqf |-> kqf,
              posts |-> <<[port |-> n.port, value |-> event_mask]>>,
              asserts |-> {}, add |-> "none"]

\* HandleEvents' loop body asking NextNotifyDartPort a second time for the
\* port it posts to.
DispatchEventAsksTwice(di, kqf, event, accepted) ==
  LET old_mask == Mask(di)
      event_mask == GetEvents(event, di.listening)
  IN IF kErrorEvent \in event_mask
     THEN LET n == NotifyAllDartPorts(di, event_mask)
              u == UpdateKQueueInstance(old_mask, n.di, kqf, accepted)
          IN [di |-> u.di, kqf |-> u.kqf, posts |-> n.posts \o u.posts,
              asserts |-> u.asserts, add |-> AddResult(old_mask, n.di, accepted)]
     ELSE LET n1 == NextNotifyDartPort(di, event_mask)
              n == NextNotifyDartPort(n1.di, event_mask)
              u == UpdateKQueueInstance(old_mask, n.di, kqf, accepted)
          IN [di |-> u.di, kqf |-> u.kqf,
              posts |-> u.posts \o <<[port |-> n.port, value |-> event_mask]>>,
              asserts |-> u.asserts,
              add |-> AddResult(old_mask, n.di, accepted)]

\* HandleEvents' loop body with UpdateKQueueInstance called before the
\* subscriber is chosen instead of after.
DispatchEventUpdatesFirst(di, kqf, event, accepted) ==
  LET old_mask == Mask(di)
      event_mask == GetEvents(event, di.listening)
  IN IF kErrorEvent \in event_mask
     THEN LET n == NotifyAllDartPorts(di, event_mask)
              u == UpdateKQueueInstance(old_mask, n.di, kqf, accepted)
          IN [di |-> u.di, kqf |-> u.kqf, posts |-> n.posts \o u.posts,
              asserts |-> u.asserts, add |-> AddResult(old_mask, n.di, accepted)]
     ELSE IF event_mask # {}
     THEN LET u == UpdateKQueueInstance(old_mask, di, kqf, accepted)
              n == NextNotifyDartPort(u.di, event_mask)
          IN [di |-> n.di, kqf |-> u.kqf,
              posts |-> u.posts \o <<[port |-> n.port, value |-> event_mask]>>,
              asserts |-> u.asserts, add |-> "none"]
     ELSE [di |-> di, kqf |-> kqf, posts |-> <<>>, asserts |-> {}, add |-> "none"]

\* HandleEvents' loop body without the test for the error bit: every mask
\* goes to the one subscriber NextNotifyDartPort picks.
DispatchEventErrorToOne(di, kqf, event, accepted) ==
  LET old_mask == Mask(di)
      event_mask == GetEvents(event, di.listening)
  IN IF event_mask # {}
     THEN LET n == NextNotifyDartPort(di, event_mask)
              u == UpdateKQueueInstance(old_mask, n.di, kqf, accepted)
          IN [di |-> u.di, kqf |-> u.kqf,
              posts |-> u.posts \o <<[port |-> n.port, value |-> event_mask]>>,
              asserts |-> u.asserts \cup
                          (IF n.port = ILLEGAL_PORT
                           THEN {"HandleEvents: port != 0"} ELSE {}),
              add |-> AddResult(old_mask, n.di, accepted)]
     ELSE [di |-> di, kqf |-> kqf, posts |-> <<>>, asserts |-> {}, add |-> "none"]

\* HandleEvents' loop body taking a connected socket's filters out after a
\* post, as a one-shot registration would.
DispatchEventDisarms(di, kqf, event, accepted) ==
  LET old_mask == Mask(di)
      event_mask == GetEvents(event, di.listening)
  IN IF kErrorEvent \in event_mask
     THEN LET n == NotifyAllDartPorts(di, event_mask)
              u == UpdateKQueueInstance(old_mask, n.di, kqf, accepted)
          IN [di |-> u.di, kqf |-> u.kqf, posts |-> n.posts \o u.posts,
              asserts |-> u.asserts, add |-> AddResult(old_mask, n.di, accepted)]
     ELSE IF event_mask # {}
     THEN LET n == NextNotifyDartPort(di, event_mask)
              u == IF di.listening
                   THEN UpdateKQueueInstance(old_mask, n.di, kqf, accepted)
                   ELSE RemoveFromKqueue(n.di, kqf)
          IN [di |-> u.di, kqf |-> u.kqf,
              posts |-> u.posts \o <<[port |-> n.port, value |-> event_mask]>>,
              asserts |-> u.asserts,
              add |-> AddResult(old_mask, n.di, accepted)]
     ELSE [di |-> di, kqf |-> kqf, posts |-> <<>>, asserts |-> {}, add |-> "none"]

\* The body of HandleEvents' loop for an event of a descriptor:
\* [di, kqf, posts, asserts, add] as for the kernel registration.
DispatchEvent(di, kqf, event, accepted) ==
  LET old_mask == Mask(di)
      event_mask == GetEvents(event, di.listening)
  IN IF kErrorEvent \in event_mask
     THEN LET n == NotifyAllDartPorts(di, event_mask)
              u == UpdateKQueueInstance(old_mask, n.di, kqf, accepted)
          IN [di |-> u.di, kqf |-> u.kqf, posts |-> n.posts \o u.posts,
              asserts |-> u.asserts, add |-> AddResult(old_mask, n.di, accepted)]
     ELSE IF event_mask # {}
     THEN LET n == NextNotifyDartPort(di, event_mask)
              u == UpdateKQueueInstance(old_mask, n.di, kqf, accepted)
          IN [di |-> u.di, kqf |-> u.kqf,
              posts |-> u.posts \o <<[port |-> n.port, value |-> event_mask]>>,
              asserts |-> u.asserts \cup
                          (IF n.port = ILLEGAL_PORT
                           THEN {"HandleEvents: port != 0"} ELSE {}),
              add |-> AddResult(old_mask, n.di, accepted)]
     ELSE [di |-> di, kqf |-> kqf, posts |-> <<>>, asserts |-> {}, add |-> "none"]

\* The choices of `accepted` that matter for an event.
EventAddOutcomes(di, event) ==
  LET old_mask == Mask(di)
      event_mask == GetEvents(event, di.listening)
  IN IF kErrorEvent \in event_mask
     THEN AddOutcomes(old_mask, NotifyAllDartPorts(di, event_mask).di)
     ELSE AddOutcomes(old_mask, NextNotifyDartPort(di, event_mask).di)

\* HandleInterruptFd called from inside the loop, at the interrupt's event.
OnInterruptEventEager(rest) == "interrupt"

\* if (events[i].udata == nullptr) interrupt_seen = true; and, the loop over,
\* if (interrupt_seen) HandleInterruptFd();
OnInterruptEvent(rest) == AfterEvents(rest, TRUE)

\* One iteration of the loop of HandleEvents.
HandleEvent ==
  /\ pc = "events"
  /\ events # <<>>
  /\ LET e == Head(events)
         rest == Tail(events)
     IN /\ events' = rest
        /\ IF e.udata = NullUdata
           THEN /\ interrupt_seen' = TRUE
                /\ pc' = OnInterruptEvent(rest)
                /\ lastPost' = <<>>
                /\ lastOp' = Op("event", "", NullUdata, "interrupt", "none")
                /\ UNCHANGED <<socket_map, kq, failed, delivered>>
           ELSE /\ pc' = AfterEvents(rest, interrupt_seen)
                /\ UNCHANGED interrupt_seen
                /\ IF e.freed \/ e.udata \notin DOMAIN socket_map
                   THEN \* udata points to a deleted DescriptorInfo
                        /\ failed' = failed \cup {"HandleEvents: use after free"}
                        /\ lastPost' = <<>>
                        /\ lastOp' = Op("event", "", e.udata, "freed", "none")
                        /\ UNCHANGED <<socket_map, kq, delivered>>
                   ELSE \E accepted \in EventAddOutcomes(socket_map[e.udata], e) :
                          \E r \in {DispatchEvent(socket_map[e.udata],
                                                   kq[e.udata], e, accepted)} :
                             /\ socket_map' = [socket_map EXCEPT ![e.udata] = r.di]
                             /\ kq' = [kq EXCEPT ![e.udata] = r.kqf]
                             /\ failed' = failed \cup r.asserts
                             /\ lastPost' = r.posts
                             /\ lastOp' = Op("event", "", e.udata, e.filter, r.add)
                             /\ delivered' =
                                  IF socket_map[e.udata].listening \/ r.posts = <<>>
                                  THEN delivered
                                  ELSE delivered \cup {e.udata}
  /\ UNCHANGED <<shutdown_, timeout_queue, sockfd, registry, pipe, msgs, millis,
                 now, destroyed, shutdownDone, sent, applied, scenario, refs>>

\* A read that empties the pipe whatever the size of the buffer.
PipeAfterReadDrains(p) == <<>>

\* read(interrupt_fds_[0], msg, MAX_MESSAGES * kInterruptMessageSize): the
\* messages it returns, oldest first, and what stays in the pipe.
ReadMessages(p) == Take(p, MAX_MESSAGES)

PipeAfterRead(p) == Drop(p, MAX_MESSAGES)

\* HandleInterruptFd: the read of up to MAX_MESSAGES messages.
ReadInterruptFd ==
  /\ pc = "interrupt"
  /\ msgs' = ReadMessages(pipe)
  /\ pipe' = PipeAfterRead(pipe)
  /\ pc' = IF msgs' = <<>> THEN "loop" ELSE "msgs"
  /\ lastPost' = <<>>
  /\ lastOp' = Op("read", "", NullUdata, "", "none")
  /\ UNCHANGED <<shutdown_, socket_map, kq, timeout_queue, sockfd, registry,
                 events, interrupt_seen, millis, now, destroyed, shutdownDone,
                 failed, sent, applied, scenario, refs,
                 delivered>>

GetDescriptorInfo(map, fd, is_listening) ==
  IF fd \in DOMAIN map THEN map[fd] ELSE NewDescriptorInfo(fd, is_listening)

MapPut(map, fd, di) ==
  [f \in DOMAIN map \cup {fd} |-> IF f = fd THEN di ELSE map[f]]

MapRemove(map, fd) == [f \in DOMAIN map \ {fd} |-> map[f]]

\* The events of the batch in hand whose udata is a deleted DescriptorInfo.
MarkFreed(evs, fd) ==
  [i \in DOMAIN evs |->
     IF evs[i].udata = fd THEN [evs[i] EXCEPT !.freed = TRUE] ELSE evs[i]]

\* The commands with kReturnTokenCommand giving back one token whatever
\* TOKEN_COUNT(data) is.
ApplyCommandOneToken(di, kqf, msg, accepted) ==
  IF msg.command \in {kShutdownReadCommand, kShutdownWriteCommand}
  THEN [di |-> di, kqf |-> kqf, posts |-> <<>>,
        asserts |-> IF di.listening
                    THEN {"HandleInterruptFd: !IsListeningSocket"} ELSE {},
        add |-> "none"]
  ELSE LET old_mask == Mask(di)
           d == IF msg.command = kReturnTokenCommand
                THEN ReturnTokens(di, msg.dart_port, 1)
                ELSE SetPortAndMask(di, msg.dart_port, msg.events)
           u == UpdateKQueueInstance(old_mask, d, kqf, accepted)
       IN [di |-> u.di, kqf |-> u.kqf, posts |-> u.posts, asserts |-> u.asserts,
           add |-> AddResult(old_mask, d, accepted)]

\* kReturnTokenCommand, kSetEventMaskCommand, kShutdownReadCommand and
\* kShutdownWriteCommand on a DescriptorInfo: [di, kqf, posts, asserts, add].
ApplyCommand(di, kqf, msg, accepted) ==
  IF msg.command \in {kShutdownReadCommand, kShutdownWriteCommand}
  THEN [di |-> di, kqf |-> kqf, posts |-> <<>>,
        asserts |-> IF di.listening
                    THEN {"HandleInterruptFd: !IsListeningSocket"} ELSE {},
        add |-> "none"]
  ELSE LET old_mask == Mask(di)
           d == IF msg.command = kReturnTokenCommand
                THEN ReturnTokens(di, msg.dart_port, msg.tokens)
                ELSE SetPortAndMask(di, msg.dart_port, msg.events)
           u == UpdateKQueueInstance(old_mask, d, kqf, accepted)
       IN [di |-> u.di, kqf |-> u.kqf, posts |-> u.posts, asserts |-> u.asserts,
           add |-> AddResult(old_mask, d, accepted)]

\* kCloseCommand up to the decision to delete: [di, kqf, posts, asserts, add,
\* new_mask].
CloseUpdate(di, kqf, msg, accepted) ==
  LET old_mask == Mask(di)
      d == IF msg.dart_port # ILLEGAL_PORT THEN RemovePort(di, msg.dart_port)
           ELSE di
      u == UpdateKQueueInstance(old_mask, d, kqf, accepted)
  IN [di |-> u.di, kqf |-> u.kqf, posts |-> u.posts, asserts |-> u.asserts,
      add |-> AddResult(old_mask, d, accepted), new_mask |-> Mask(d)]

\* kCloseCommand with the two branches exchanged: only a listening socket's
\* DescriptorInfo is deleted outright.
CloseDeletesListeningOnly(di, reg, socket) ==
  IF di.listening THEN TRUE ELSE FALSE

\* kCloseCommand deleting the DescriptorInfo without asking the registry.
CloseDeletesUnasked(di, reg, socket) == TRUE

\* Whether kCloseCommand deletes the DescriptorInfo.
CloseDeletes(di, reg, socket) ==
  IF di.listening THEN CloseSafe(reg, socket) ELSE TRUE

\* The choices of `accepted` that matter for a command.
CommandAddOutcomes(di, msg) ==
  LET old_mask == Mask(di)
  IN IF msg.command = kCloseCommand
     THEN AddOutcomes(old_mask,
                      IF msg.dart_port # ILLEGAL_PORT
                      THEN RemovePort(di, msg.dart_port) ELSE di)
     ELSE IF msg.command = kReturnTokenCommand
     THEN AddOutcomes(old_mask, ReturnTokens(di, msg.dart_port, msg.tokens))
     ELSE IF msg.command = kSetEventMaskCommand
     THEN AddOutcomes(old_mask, SetPortAndMask(di, msg.dart_port, msg.events))
     ELSE {TRUE}

\* A command for a socket whose fd is open.
HandleSocketMsg(m) ==
  LET fd == sockfd[m.id]
      di == GetDescriptorInfo(socket_map, fd, m.listening)
  IN \E accepted \in CommandAddOutcomes(di, m) :
       IF m.command = kCloseCommand
       THEN \E c \in {CloseUpdate(di, kq[fd], m, accepted)} :
            \E del \in {CloseDeletes(di, registry, m.id)} :
               /\ socket_map' = IF del THEN MapRemove(socket_map, fd)
                                ELSE MapPut(socket_map, fd, c.di)
               /\ kq' = [kq EXCEPT ![fd] = IF del THEN {} ELSE c.kqf]
               /\ events' = IF del THEN MarkFreed(events, fd) ELSE events
               /\ registry' = registry \ {m.id}
               /\ sockfd' = [sockfd EXCEPT ![m.id] = kClosedFd]
               /\ failed' = failed \cup c.asserts \cup
                              (IF del /\ c.new_mask # {}
                               THEN {"HandleInterruptFd: new_mask == 0"} ELSE {})
               /\ lastPost' = c.posts \o
                    <<[port |-> m.dart_port, value |-> {kDestroyedEvent}]>>
               /\ destroyed' = [destroyed EXCEPT ![m.dart_port] = @ + 1]
               /\ lastOp' = Op("msg", m.id, fd, m.command, c.add)
       ELSE \E r \in {ApplyCommand(di, kq[fd], m, accepted)} :
               /\ socket_map' = MapPut(socket_map, fd, r.di)
               /\ kq' = [kq EXCEPT ![fd] = r.kqf]
               /\ failed' = failed \cup r.asserts
               /\ lastPost' = r.posts
               /\ lastOp' = Op("msg", m.id, fd, m.command, r.add)
               /\ UNCHANGED <<events, registry, sockfd, destroyed>>

\* The loop over the messages left at kShutdownId.
AfterMsgBreaksAtShutdown(m, rest) ==
  IF m.id = kShutdownId \/ rest = <<>> THEN "loop" ELSE "msgs"

\* for (i = 0; i < bytes / kInterruptMessageSize; i++): every message read
\* is applied, whatever it is.
AfterMsg(m, rest) == IF rest = <<>> THEN "loop" ELSE "msgs"

\* The release of a scope entered only once the fd is known to be open.
RefCntReleaseScopeIfOpen(r, m) ==
  IF m.id \in {kTimerId, kShutdownId} \/ sockfd[m.id] = kClosedFd THEN r
  ELSE [r EXCEPT ![m.id] = @ - 1]

\* RefCntReleaseScope<Socket> rs(socket): entered for a socket message before
\* the fd is looked at, it releases one reference when the iteration ends,
\* by continue or at the end of the body.
RefCntReleaseScope(r, m) ==
  IF m.id \in {kTimerId, kShutdownId} THEN r
  ELSE [r EXCEPT ![m.id] = @ - 1]

\* One iteration of the loop of HandleInterruptFd.
HandleMsg ==
  /\ pc = "msgs"
  /\ msgs # <<>>
  /\ LET m == Head(msgs)
     IN /\ msgs' = Tail(msgs)
        /\ pc' = AfterMsg(m, Tail(msgs))
        /\ applied' = [applied EXCEPT ![m.w] = @ + 1]
        /\ refs' = RefCntReleaseScope(refs, m)
        /\ delivered' =
             IF /\ m.id \in Sockets
                /\ sockfd[m.id] # kClosedFd
                /\ m.command \in {kSetEventMaskCommand, kReturnTokenCommand,
                                   kCloseCommand}
             THEN delivered \ {sockfd[m.id]}
             ELSE delivered
        /\ IF m.id = kTimerId
           THEN /\ timeout_queue' =
                     UpdateTimeout(timeout_queue, m.dart_port, m.deadline)
                /\ lastPost' = <<>>
                /\ lastOp' = Op("msg", m.id, 0, "", "none")
                /\ UNCHANGED <<shutdown_, socket_map, kq, sockfd, registry,
                               events, destroyed, failed>>
           ELSE IF m.id = kShutdownId
           THEN /\ shutdown_' = TRUE
                /\ lastPost' = <<>>
                /\ lastOp' = Op("msg", m.id, 0, "", "none")
                /\ UNCHANGED <<timeout_queue, socket_map, kq, sockfd, registry,
                               events, destroyed, failed>>
           ELSE IF sockfd[m.id] = kClosedFd
           THEN /\ lastPost' = <<>>
                /\ lastOp' = Op("skip", m.id, 0, m.command, "none")
                /\ UNCHANGED <<shutdown_, timeout_queue, socket_map, kq, sockfd,
                               registry, events, destroyed, failed>>
           ELSE /\ HandleSocketMsg(m)
                /\ UNCHANGED <<shutdown_, timeout_queue>>
  /\ UNCHANGED <<pipe, interrupt_seen, millis, now, shutdownDone, sent, scenario>>

\* DeleteDescriptorInfo telling the subscribers that the descriptor is gone.
DeleteDescriptorInfoNotifies(di) ==
  NotifyAllDartPorts(di, {kDestroyedEvent}).posts

\* DeleteDescriptorInfo: di->Close(); delete di.  It posts nothing.
DeleteDescriptorInfo(di) == <<>>

RECURSIVE TeardownPosts(_, _)
TeardownPosts(map, fds) ==
  IF fds = {} THEN <<>>
  ELSE LET fd == Min(fds)
       IN DeleteDescriptorInfo(map[fd]) \o TeardownPosts(map, fds \ {fd})

\* ~EventHandlerImplementation, run once the worker has signalled that it is
\* done: the map is cleared, the kqueue and the pipe are closed.
Destructor ==
  /\ pc = "done"
  /\ pc' = "destroyed"
  /\ lastPost' = TeardownPosts(socket_map, DOMAIN socket_map)
  /\ socket_map' = <<>>
  /\ kq' = [fd \in Fds |-> {}]
  /\ lastOp' = Op("destructor", "", 0, "", "none")
  /\ UNCHANGED <<shutdown_, timeout_queue, sockfd, registry, pipe, events,
                 interrupt_seen, msgs, millis, now, destroyed, shutdownDone,
                 failed, sent, applied, scenario, refs,
                 delivered>>

-----------------------------------------------------------------------------

Worker == LoopHead \/ Kevent \/ HandleEvent \/ ReadInterruptFd \/ HandleMsg

Next == SendData \/ Worker \/ Destructor

Spec == Init /\ [][Next]_vars

\* The worker thread is scheduled; foreign threads need never write.
LiveSpec == Spec /\ WF_vars(Worker)

TypeOK ==
  /\ pc \in {"loop", "kevent", "events", "interrupt", "msgs", "done", "destroyed"}
  /\ shutdown_ \in BOOLEAN
  /\ DOMAIN socket_map \subseteq Fds
  /\ \A fd \in Fds : kq[fd] \subseteq {EVFILT_READ, EVFILT_WRITE}
  /\ DOMAIN timeout_queue \subseteq TimerPorts
  /\ now \in 0..MaxTime
  /\ Len(pipe) <= MaxSends
  /\ delivered \subseteq Fds

-----------------------------------------------------------------------------
(* Claims.  Every state of the model lies between the handling of two      *)
(* readiness events or two interrupt messages: a quiescent point.          *)

\* C1: at every quiescent point, every DescriptorInfo of the map is tracked
\* (its flag set, and filters registered with the kernel for its fd) if and
\* only if its effective mask is not empty.
C1_TrackedIffMask ==
  \A fd \in DOMAIN socket_map :
    /\ socket_map[fd].tracked <=> Mask(socket_map[fd]) # {}
    /\ kq[fd] # {} <=> socket_map[fd].tracked

\* C1 witness: the kernel has just refused the descriptor of a subscribed
\* DescriptorInfo, which is left untracked.
C1_Witness ==
  /\ lastOp.add = "failed"
  /\ lastOp.fd \in DOMAIN socket_map
  /\ socket_map[lastOp.fd].subs # <<>>
  /\ ~socket_map[lastOp.fd].tracked

\* The posts of `value` to `port` among `posts`.
CountPosts(posts, port, value) ==
  Cardinality({i \in DOMAIN posts : posts[i] = [port |-> port, value |-> value]})

Ports(di) == {di.subs[i].port : i \in DOMAIN di.subs}

\* The worker is about to apply a kCloseCommand that carries the port of the
\* only subscriber left on the socket's DescriptorInfo.
C2_ClosingLast ==
  /\ pc = "msgs"
  /\ msgs # <<>>
  /\ Head(msgs).id \in Sockets
  /\ Head(msgs).command = kCloseCommand
  /\ sockfd[Head(msgs).id] # kClosedFd
  /\ sockfd[Head(msgs).id] \in DOMAIN socket_map
  /\ Ports(socket_map[sockfd[Head(msgs).id]]) = {Head(msgs).dart_port}

\* C2 as stated: applying CLOSE for the last subscriber posts exactly one
\* DESTROYED to its port and removes the DescriptorInfo from the map.
C2_Original ==
  [][(C2_ClosingLast /\ msgs' # msgs) =>
       /\ CountPosts(lastPost', Head(msgs).dart_port, {kDestroyedEvent}) = 1
       /\ sockfd[Head(msgs).id] \notin DOMAIN socket_map']_vars

\* C2 amended: applying CLOSE for the last subscriber posts exactly one
\* DESTROYED to its port, and no port of a socket ever gets a second one; the
\* DescriptorInfo leaves the map (its fd unregistered, the socket's fd closed)
\* when it is single, or listening with CloseSafe(socket) true; a listening
\* one stays in the map, without subscribers and untracked, when CloseSafe is
\* false.
C2_CloseLifecycle ==
  [][(C2_ClosingLast /\ msgs' # msgs) =>
       LET m == Head(msgs)
           fd == sockfd[m.id]
       IN /\ CountPosts(lastPost', m.dart_port, {kDestroyedEvent}) = 1
          /\ destroyed'[m.dart_port] = 1
          /\ sockfd'[m.id] = kClosedFd
          /\ kq'[fd] = {}
          /\ IF ~socket_map[fd].listening \/ CloseSafe(registry, m.id)
             THEN fd \notin DOMAIN socket_map'
             ELSE /\ fd \in DOMAIN socket_map'
                  /\ socket_map'[fd].subs = <<>>
                  /\ ~socket_map'[fd].tracked]_vars

\* C2 witness: the CLOSE of a single socket's only subscriber took its
\* filters out of the kernel and its DescriptorInfo out of the map.
C2_Witness ==
  /\ lastOp.kind = "msg"
  /\ lastOp.command = kCloseCommand
  /\ lastOp.id = "S1"
  /\ lastOp.add = "removed"
  /\ lastPost = <<[port |-> SocketPort["S1"], value |-> {kDestroyedEvent}]>>
  /\ SocketOsFd["S1"] \notin DOMAIN socket_map
  /\ sockfd["S1"] = kClosedFd

\* The filters for the bits of a mask.
FiltersOfMask(mask) ==
  (IF kInEvent \in mask THEN {EVFILT_READ} ELSE {}) \cup
  (IF kOutEvent \in mask THEN {EVFILT_WRITE} ELSE {})

\* C3: no subscriber's token balance is ever negative, and the filters the
\* kernel holds for a descriptor are among those for the bits requested by
\* its subscribers that have tokens: one without tokens contributes none.
C3_TokensNonNegative ==
  \A fd \in DOMAIN socket_map :
    LET subs == socket_map[fd].subs
    IN /\ \A i \in DOMAIN subs : subs[i].tokens >= 0
       /\ kq[fd] \subseteq
            FiltersOfMask(UNION {subs[i].mask :
                                   i \in {k \in DOMAIN subs : subs[k].tokens > 0}})

\* C3 witness: a readiness event has used up the last token of a subscriber
\* that still asks for events, and the descriptor's filters are gone.
C3_Witness ==
  /\ lastOp.kind = "event"
  /\ lastOp.fd \in DOMAIN socket_map
  /\ \E i \in DOMAIN socket_map[lastOp.fd].subs :
       /\ socket_map[lastOp.fd].subs[i].tokens = 0
       /\ socket_map[lastOp.fd].subs[i].mask # {}
  /\ kq[lastOp.fd] = {}

\* The worker is about to handle a readiness event without error of a
\* multiple (listening) DescriptorInfo.
C4_AtListeningEvent ==
  /\ pc = "events"
  /\ events # <<>>
  /\ Head(events).udata \in DOMAIN socket_map
  /\ socket_map[Head(events).udata].listening
  /\ kErrorEvent \notin GetEvents(Head(events), TRUE)

\* Subscriber i is the first one from the cursor on, in ring order, that has
\* tokens and asks for one of the bits of mask.
C4_FirstInRing(di, i, mask) ==
  LET n == Len(di.subs)
      ok(j) == di.subs[j].tokens > 0 /\ di.subs[j].mask \cap mask # {}
      dist(j) == (j - di.cursor + n) % n
  IN /\ ok(i)
     /\ \A j \in DOMAIN di.subs : ok(j) => dist(i) <= dist(j)

\* C4: when such an event is delivered to a port, that port is the next
\* eligible subscriber of the ring, the ring's cursor moves to the position
\* after it, its token balance goes down by exactly one, and no other
\* subscriber's balance changes.
C4_RoundRobinToken ==
  [][(/\ C4_AtListeningEvent
      /\ events' # events
      /\ lastPost' # <<>>
      /\ lastPost'[Len(lastPost')].port # ILLEGAL_PORT) =>
       LET fd == Head(events).udata
           di == socket_map[fd]
           mask == GetEvents(Head(events), TRUE)
           post == lastPost'[Len(lastPost')]
       IN /\ post.value = mask
          /\ fd \in DOMAIN socket_map'
          /\ Len(socket_map'[fd].subs) = Len(di.subs)
          /\ \E i \in DOMAIN di.subs :
               /\ di.subs[i].port = post.port
               /\ C4_FirstInRing(di, i, mask)
               /\ socket_map'[fd].cursor = (i % Len(di.subs)) + 1
               /\ socket_map'[fd].subs[i].tokens = di.subs[i].tokens - 1
               /\ \A j \in DOMAIN di.subs \ {i} :
                    socket_map'[fd].subs[j].tokens = di.subs[j].tokens]_vars

\* C4 witness: with two subscribers on the listening descriptor, an event
\* went to the second one in the ring and took its last token, the first
\* keeping its own.
C4_Witness ==
  /\ lastOp.kind = "event"
  /\ lastOp.fd \in DOMAIN socket_map
  /\ socket_map[lastOp.fd].listening
  /\ Len(socket_map[lastOp.fd].subs) = 2
  /\ lastPost = <<[port |-> socket_map[lastOp.fd].subs[2].port, value |-> {kInEvent}]>>
  /\ socket_map[lastOp.fd].subs[2].tokens = 0
  /\ socket_map[lastOp.fd].subs[1].tokens > 0
  /\ socket_map[lastOp.fd].cursor = 1

\* C5: no interrupt command is read or applied while readiness events of the
\* batch are still to be dispatched, so every event still to be dispatched
\* refers to a DescriptorInfo that is in the map, and none was ever
\* dispatched to a deleted one.
C5_EventsBeforeInterrupts ==
  /\ pc \in {"interrupt", "msgs"} => events = <<>>
  /\ \A i \in DOMAIN events :
       events[i].udata # NullUdata =>
         ~events[i].freed /\ events[i].udata \in DOMAIN socket_map
  /\ "HandleEvents: use after free" \notin failed

\* C5 witness: the batch had the interrupt before a descriptor's event; that
\* event has been dispatched, and only now is the pipe read, whose first
\* message closes that descriptor's socket.
C5_Witness ==
  /\ pc = "interrupt"
  /\ lastOp.kind = "event"
  /\ lastOp.command \in {EVFILT_READ, EVFILT_WRITE}
  /\ pipe # <<>>
  /\ Head(pipe).command = kCloseCommand
  /\ sockfd[Head(pipe).id] = lastOp.fd
  /\ lastOp.fd \in DOMAIN socket_map

\* C6: the timeout handed to the readiness query is infinite exactly when no
\* timer is queued, and otherwise it is the time to the earliest deadline,
\* raised to 0 and lowered to kMaxInt32.
C6_TimeoutClamped ==
  pc = "kevent" =>
    IF DOMAIN timeout_queue = {}
    THEN millis = kInfinityTimeout
    ELSE LET left == Min({timeout_queue[p] : p \in DOMAIN timeout_queue}) - now
             capped == IF left < kMaxInt32 THEN left ELSE kMaxInt32
         IN /\ millis = (IF capped > 0 THEN capped ELSE 0)
            /\ millis >= 0
            /\ millis <= kMaxInt32
            /\ millis # kInfinityTimeout

\* C6 witness: the earliest deadline is further away than kMaxInt32 and the
\* query is about to be made with kMaxInt32.
C6_Witness ==
  /\ pc = "kevent"
  /\ DOMAIN timeout_queue # {}
  /\ Min({timeout_queue[p] : p \in DOMAIN timeout_queue}) - now > kMaxInt32
  /\ millis = kMaxInt32

\* The worker handles a readiness event or applies a command.
C7_HandlerStep ==
  \/ pc = "events" /\ events # <<>> /\ events' = Tail(events)
  \/ pc = "msgs" /\ msgs # <<>> /\ msgs' = Tail(msgs)

\* The subscribers a refused add finds on the DescriptorInfo of fd.
C7_Subscribers(fd) ==
  IF fd \in DOMAIN socket_map' THEN Ports(socket_map'[fd])
  ELSE Ports(socket_map[fd]) \ {Head(msgs).dart_port}

\* C7: when the kernel refuses the add of a descriptor's filters, a CLOSE
\* event mask is posted once to each of its subscribers, the descriptor has
\* no filter in the kernel and is not flagged as tracked, no port is told
\* anything else beyond what the handler posts anyway, and the worker goes on
\* with the next event or command of what it has in hand.
C7_RefusedAddPostsClose ==
  [][(C7_HandlerStep /\ lastOp'.add = "failed") =>
       LET fd == lastOp'.fd
       IN /\ C7_Subscribers(fd) # {}
          /\ \A p \in C7_Subscribers(fd) :
               CountPosts(lastPost', p, {kCloseEvent}) = 1
          /\ kq'[fd] = {}
          /\ fd \in DOMAIN socket_map' => ~socket_map'[fd].tracked
          /\ pc' \in {"events", "interrupt", "msgs", "loop"}
          /\ pc = "events" =>
               pc' = (IF events' # <<>> THEN "events"
                      ELSE IF interrupt_seen THEN "interrupt" ELSE "loop")
          /\ pc = "msgs" => pc' = (IF msgs' # <<>> THEN "msgs" ELSE "loop")
          /\ shutdown_' = shutdown_
          /\ pipe' = pipe]_vars

\* C7 witness: a SET_MASK has been refused by the kernel, CLOSE went to the
\* subscriber, and the worker has a further command of the batch to apply.
C7_Witness ==
  /\ lastOp.kind = "msg"
  /\ lastOp.command = kSetEventMaskCommand
  /\ lastOp.add = "failed"
  /\ lastPost = <<[port |-> SocketPort[lastOp.id], value |-> {kCloseEvent}]>>
  /\ ~socket_map[lastOp.fd].tracked
  /\ pc = "msgs"
  /\ msgs # <<>>

\* A kShutdownId message is in the wakeup pipe.
C8_ShutdownEnqueued == \E i \in DOMAIN pipe : pipe[i].id = kShutdownId

\* C8 (under LiveSpec): a kShutdownId in the pipe is eventually applied and
\* the worker then signals shutdown done, once; applying it does not cut the
\* batch short, whose remaining messages are applied before the worker
\* leaves; and with the flag set the worker makes no further readiness query.
C8_ShutdownCompletes ==
  /\ [](/\ shutdownDone <= 1
        /\ shutdownDone = 1 <=> pc \in {"done", "destroyed"}
        /\ shutdownDone = 1 => shutdown_ /\ msgs = <<>>
        /\ shutdown_ => pc \in {"msgs", "loop", "done", "destroyed"})
  /\ [][(pc = "msgs" /\ msgs # <<>> /\ msgs' = Tail(msgs)
         /\ (shutdown_ \/ Head(msgs).id = kShutdownId)) =>
          /\ shutdown_'
          /\ pc' = (IF msgs' # <<>> THEN "msgs" ELSE "loop")]_vars
  /\ C8_ShutdownEnqueued ~> shutdownDone = 1

\* C8 witness: the flag is set and the batch is finished, and the message
\* applied last was a command that came after kShutdownId in the batch.
C8_Witness ==
  /\ shutdown_
  /\ pc = "loop"
  /\ lastOp.kind = "msg"
  /\ lastOp.id \in Sockets

\* C9: after the shutdown-done signal the worker takes no step and nothing is
\* posted, by the teardown of the map either.
C9_SilentAfterShutdown ==
  shutdownDone >= 1 =>
    /\ pc \in {"done", "destroyed"}
    /\ lastPost = <<>>

\* C9 witness: the handler has been torn down with a message still in the
\* pipe and with a socket that had been given to it and was never closed.
C9_Witness ==
  /\ pc = "destroyed"
  /\ pipe # <<>>
  /\ scenario = "single"
  /\ applied["W1"] >= 1
  /\ sockfd["S1"] = SocketOsFd["S1"]

\* The messages of writer w that are read or still in the pipe, oldest first.
C10_Pending(w) == SelectSeq(msgs \o pipe, LAMBDA m : m.w = w)

\* C10: what is pending of a writer's messages is exactly those it has sent
\* and the worker has not applied, each once and whole, in the order sent;
\* so the next one applied is always the oldest not yet applied.
C10_WriterFifo ==
  /\ \A w \in Writers :
       /\ Len(C10_Pending(w)) = sent[w] - applied[w]
       /\ \A i \in DOMAIN C10_Pending(w) :
            C10_Pending(w)[i].seq = applied[w] + i
  /\ Len(msgs) + Len(pipe) =
       (sent["W1"] - applied["W1"]) + (sent["W2"] - applied["W2"])

\* C10 witness: one read has filled its buffer and left a message in the
\* pipe, of a writer that has an earlier message in the buffer.
C10_Witness ==
  /\ pc = "msgs"
  /\ Len(msgs) = MAX_MESSAGES
  /\ pipe # <<>>
  /\ \E i \in DOMAIN msgs : msgs[i].w = pipe[1].w

\* The worker takes a step.
C11_WorkerStep == pc' # pc \/ events' # events \/ msgs' # msgs

\* The null posts among posts.
C11_Nulls(posts) == {i \in DOMAIN posts : posts[i].value = PostedNull}

\* C11: a null value is posted only by the step that follows a readiness
\* query, and only to a port whose timer is the earliest and whose deadline
\* is not later than the clock at that time; that step posts one null value
\* and removes the entry, and leaves the queue alone when the earliest
\* deadline is still ahead.  When the earliest deadline has passed before
\* the query, the query is made with timeout 0 and takes no time.
C11_TimerFiresOnce ==
  [][C11_WorkerStep =>
       IF pc = "kevent"
       THEN LET q == timeout_queue
                due == {p \in DOMAIN q : q[p] <= now'}
            IN /\ (\E p \in DOMAIN q : q[p] <= now) => (millis = 0 /\ now' = now)
               /\ IF due = {}
                  THEN lastPost' = <<>> /\ timeout_queue' = q
                  ELSE \E p \in due :
                         /\ \A o \in DOMAIN q : q[p] <= q[o]
                         /\ lastPost' = <<[port |-> p, value |-> PostedNull]>>
                         /\ DOMAIN timeout_queue' = DOMAIN q \ {p}
                         /\ \A o \in DOMAIN q \ {p} : timeout_queue'[o] = q[o]
       ELSE C11_Nulls(lastPost') = {}]_vars

\* C11 witness: a query made with timeout 0 for a deadline already passed
\* has returned and the timer has fired: one null value to its port, the
\* entry gone, a later timer still queued.
C11_Witness ==
  /\ lastOp.kind = "kevent"
  /\ lastOp.command = "fired"
  /\ millis = 0
  /\ Len(lastPost) = 1
  /\ lastPost[1].value = PostedNull
  /\ lastPost[1].port \notin DOMAIN timeout_queue
  /\ \E o \in DOMAIN timeout_queue : timeout_queue[o] > now

\* The worker is about to apply a SET_MASK to a socket whose fd is open.
C12_AtSetMask ==
  /\ pc = "msgs"
  /\ msgs # <<>>
  /\ Head(msgs).command = kSetEventMaskCommand
  /\ sockfd[Head(msgs).id] # kClosedFd

\* That SET_MASK, with each mask it could carry.
C12_SetMasks ==
  {[Head(msgs) EXCEPT !.events = m] : m \in SUBSET {kInEvent, kOutEvent}}

\* SET_MASK m applied to the DescriptorInfo of socket s as it is now, the
\* kernel answering a1, and applied once more to what r1 left.
C12_Once(s, m, a1) ==
  ApplyCommand(GetDescriptorInfo(socket_map, sockfd[s], m.listening),
               kq[sockfd[s]], m, a1)

C12_Again(r1, m, a2) == ApplyCommand(r1.di, r1.kqf, m, a2)

\* C12 as stated: where the worker applies a SET_MASK, applying it a second
\* time changes neither the DescriptorInfo nor the kernel's filters
\* and posts nothing, whatever the kernel answers.
C12_Original ==
  C12_AtSetMask =>
    \A m \in C12_SetMasks : \A a1, a2 \in BOOLEAN :
      \A r1 \in {C12_Once(m.id, m, a1)} : \A r2 \in {C12_Again(r1, m, a2)} :
        /\ r2.di = r1.di
        /\ r2.kqf = r1.kqf
        /\ r2.posts = <<>>

\* C12 amended: the same, where the first application did not end in an add
\* the kernel refused.  Where it did, the second application makes the add
\* again if the subscriber's own bits count: refused again it leaves the
\* same state and posts CLOSE to the same ports again.
C12_SetMaskIdempotent ==
  C12_AtSetMask =>
    \A m \in C12_SetMasks : \A a1, a2 \in BOOLEAN :
      \A r1 \in {C12_Once(m.id, m, a1)} : \A r2 \in {C12_Again(r1, m, a2)} :
        IF r1.add # "failed"
        THEN /\ r2.di = r1.di
             /\ r2.kqf = r1.kqf
             /\ r2.posts = <<>>
             /\ r2.add = "none"
        ELSE /\ r2.add \in {"none", "ok", "failed"}
             /\ r2.add = "none" => r2.di = r1.di /\ r2.kqf = r1.kqf /\ r2.posts = <<>>
             /\ r2.add = "failed" =>
                  r2.di = r1.di /\ r2.kqf = r1.kqf /\ r2.posts = r1.posts

\* C12 witness: a SET_MASK has been applied and accepted by the kernel, and
\* the next message of the batch is the same SET_MASK once more.
C12_Witness ==
  /\ pc = "msgs"
  /\ msgs # <<>>
  /\ lastOp.kind = "msg"
  /\ lastOp.command = kSetEventMaskCommand
  /\ lastOp.add = "ok"
  /\ Head(msgs).command = kSetEventMaskCommand
  /\ Head(msgs).id = lastOp.id
  /\ socket_map[lastOp.fd].tracked
  /\ \E i \in DOMAIN socket_map[lastOp.fd].subs :
       /\ socket_map[lastOp.fd].subs[i].port = Head(msgs).dart_port
       /\ socket_map[lastOp.fd].subs[i].mask = Head(msgs).events
       /\ Head(msgs).events # {}

\* The worker is about to apply a RETURN_TOKEN to a socket whose fd is open.
C13_AtReturnToken ==
  /\ pc = "msgs"
  /\ msgs # <<>>
  /\ Head(msgs).command = kReturnTokenCommand
  /\ sockfd[Head(msgs).id] # kClosedFd

\* That RETURN_TOKEN carrying n tokens.
C13_ReturnToken(n) == [Head(msgs) EXCEPT !.tokens = n]

\* The token counts tried: 0 up to twice the largest count sent.
C13_Counts == 0..2

\* RETURN_TOKEN(n) applied to the DescriptorInfo as it is now, the kernel
\* answering a.
C13_Apply(n, a) ==
  ApplyCommand(GetDescriptorInfo(socket_map, sockfd[Head(msgs).id],
                                 Head(msgs).listening),
               kq[sockfd[Head(msgs).id]], C13_ReturnToken(n), a)

\* C13: where the worker applies a RETURN_TOKEN, RETURN_TOKEN(n) followed by
\* RETURN_TOKEN(m) leaves the same DescriptorInfo (balances, interest, flag)
\* and the same kernel filters as RETURN_TOKEN(n+m), the kernel giving the
\* same answer for the fd; of the two at most one reaches the kernel's add.
C13_ReturnTokenAdditive ==
  C13_AtReturnToken =>
    \A n, m \in C13_Counts : \A a \in BOOLEAN :
      \A r1 \in {C13_Apply(n, a)} :
      \A r2 \in {ApplyCommand(r1.di, r1.kqf, C13_ReturnToken(m), a)} :
      \A r3 \in {C13_Apply(n + m, a)} :
        /\ r2.di = r3.di
        /\ r2.kqf = r3.kqf
        /\ Mask(r2.di) = Mask(r3.di)
        /\ r1.add \in {"ok", "failed"} => r2.add = "none"
        /\ r1.posts \o r2.posts = r3.posts

\* C13 witness: a subscriber without tokens has been given tokens back, the
\* kernel has taken the fd again, and the next message of the batch returns
\* more tokens to the same subscriber.
C13_Witness ==
  /\ pc = "msgs"
  /\ msgs # <<>>
  /\ lastOp.kind = "msg"
  /\ lastOp.command = kReturnTokenCommand
  /\ lastOp.add = "ok"
  /\ Head(msgs).command = kReturnTokenCommand
  /\ Head(msgs).id = lastOp.id
  /\ Head(msgs).dart_port \in Ports(socket_map[lastOp.fd])
  /\ socket_map[lastOp.fd].tracked

\* Three subscribers that each ask for IN, registered with one token each,
\* of which the first k have had an event since: their token is used, and
\* the ring's cursor is on the one after them.
C14_Served(di, k) ==
  /\ di.listening
  /\ Len(di.subs) = 3
  /\ \A i \in 1..3 :
       /\ di.subs[i].mask = {kInEvent}
       /\ di.subs[i].tokens = (IF i <= k THEN 0 ELSE 1)
  /\ di.cursor = (k % 3) + 1

\* The worker handles a connection-ready event of fd.
C14_ReadyEvent(fd) ==
  /\ pc = "events"
  /\ events # <<>>
  /\ events' = Tail(events)
  /\ Head(events).udata = fd
  /\ GetEvents(Head(events), TRUE) = {kInEvent}

\* The worker applies a RETURN_TOKEN.
C14_ReturnsToken ==
  /\ pc = "msgs"
  /\ msgs # <<>>
  /\ msgs' = Tail(msgs)
  /\ Head(msgs).command = kReturnTokenCommand

\* C14: with P1, P2, P3 subscribed in that order to a listening fd, each
\* for IN with one token, the k+1st connection-ready event is posted to the
\* k+1st of them and to no other; up to the second the fd stays registered
\* for reading, and after the third the effective mask is empty, the fd is
\* untracked and has no filter in the kernel, and no event of it is left in
\* the batch.  From then on no step of the worker's loop posts anything,
\* until one applies a RETURN_TOKEN.
C14_ThreeSubscribersInTurn ==
  [][\A fd \in DOMAIN socket_map :
       /\ \A k \in 0..2 :
            (C14_Served(socket_map[fd], k) /\ C14_ReadyEvent(fd)) =>
              /\ lastPost' = <<[port |-> socket_map[fd].subs[k + 1].port,
                                value |-> {kInEvent}]>>
              /\ fd \in DOMAIN socket_map'
              /\ C14_Served(socket_map'[fd], k + 1)
              /\ IF k < 2
                 THEN socket_map'[fd].tracked /\ kq'[fd] = {EVFILT_READ}
                 ELSE /\ Mask(socket_map'[fd]) = {}
                      /\ ~socket_map'[fd].tracked
                      /\ kq'[fd] = {}
                      /\ \A i \in DOMAIN events' : events'[i].udata # fd
       /\ (/\ C14_Served(socket_map[fd], 3)
           /\ C11_WorkerStep
           /\ pc # "done"
           /\ ~C14_ReturnsToken) =>
            /\ lastPost' = <<>>
            /\ fd \in DOMAIN socket_map'
            /\ C14_Served(socket_map'[fd], 3)
            /\ kq'[fd] = {}
            /\ \A i \in DOMAIN events' : events'[i].udata # fd]_vars

\* C14 witness: the third event has gone to the third subscriber, and all
\* three tokens are used.
C14_Witness ==
  /\ lastOp.kind = "event"
  /\ lastOp.fd \in DOMAIN socket_map
  /\ C14_Served(socket_map[lastOp.fd], 3)
  /\ lastPost = <<[port |-> socket_map[lastOp.fd].subs[3].port, value |-> {kInEvent}]>>
  /\ kq[lastOp.fd] = {}

\* The worker handles an event of a DescriptorInfo whose mask is neither
\* empty nor has ERROR: HandleEvents calls NextNotifyDartPort.
C15_CallsNextNotify ==
  /\ pc = "events"
  /\ events # <<>>
  /\ events' = Tail(events)
  /\ Head(events).udata \in DOMAIN socket_map
  /\ ~Head(events).freed
  /\ LET mask == GetEvents(Head(events), socket_map[Head(events).udata].listening)
     IN mask # {} /\ kErrorEvent \notin mask

\* C15: whenever HandleEvents calls NextNotifyDartPort, the port returned is
\* not 0 and is the port of a subscriber that had tokens: ASSERT(port != 0)
\* never fails.
C15_Original ==
  [][C15_CallsNextNotify =>
       /\ lastPost' # <<>>
       /\ lastPost'[Len(lastPost')].port # ILLEGAL_PORT
       /\ \E i \in DOMAIN socket_map[Head(events).udata].subs :
            /\ socket_map[Head(events).udata].subs[i].port =
                 lastPost'[Len(lastPost')].port
            /\ socket_map[Head(events).udata].subs[i].tokens > 0
       /\ "HandleEvents: port != 0" \notin failed']_vars

\* The worker is about to apply a SET_MASK to an open socket.
C16_AtSetMask ==
  /\ pc = "msgs"
  /\ msgs # <<>>
  /\ Head(msgs).command = kSetEventMaskCommand
  /\ sockfd[Head(msgs).id] # kClosedFd

\* The DescriptorInfo that SET_MASK finds.
C16_Found ==
  GetDescriptorInfo(socket_map, sockfd[Head(msgs).id], Head(msgs).listening)

\* What the update step is handed after that SET_MASK, for each mask it
\* could carry.
C16_Changed ==
  {SetPortAndMask(C16_Found, Head(msgs).dart_port, m) :
     m \in SUBSET {kInEvent, kOutEvent}}

\* The kevent changes and the filters the update step leaves, by the four
\* cases of the old and the new mask; same_too says whether an unchanged
\* non-empty mask is registered anew.
C16_Table(old_mask, d2, kqf, accepted, u, same_too) ==
  LET new_mask == Mask(d2)
  IN IF old_mask = {} /\ new_mask = {}
     THEN u.calls = <<>> /\ u.kqf = kqf /\ u.di = d2
     ELSE IF old_mask = {} /\ new_mask # {}
     THEN /\ u.calls = <<"EV_ADD">>
          /\ accepted => u.kqf = kqf \cup FiltersOfMask(new_mask)
     ELSE IF old_mask # {} /\ new_mask = {}
     THEN u.calls = <<"EV_DELETE">> /\ u.kqf = {}
     ELSE IF old_mask # new_mask \/ same_too
     THEN /\ u.calls = <<"EV_DELETE", "EV_ADD">>
          /\ u.kqf = IF accepted THEN FiltersOfMask(new_mask) ELSE {}
     ELSE u.calls = <<>> /\ u.kqf = kqf /\ u.di = d2

\* C16 as stated: the update step does nothing when the old and the new mask
\* are both empty, adds the filters of the new mask when only the old one is
\* empty, deletes all filters when only the new one is empty, and in every
\* other case deletes and then adds.
C16_Original ==
  C16_AtSetMask =>
    \A d2 \in C16_Changed : \A a \in BOOLEAN :
      C16_Table(Mask(C16_Found), d2, kq[sockfd[Head(msgs).id]], a,
                UpdateKQueueInstance(Mask(C16_Found), d2,
                                     kq[sockfd[Head(msgs).id]], a), TRUE)

\* C16 amended: the same, with delete followed by add only where both masks
\* are non-empty and differ; where they are non-empty and equal the step
\* does nothing.
C16_UpdateCases ==
  C16_AtSetMask =>
    \A d2 \in C16_Changed : \A a \in BOOLEAN :
      C16_Table(Mask(C16_Found), d2, kq[sockfd[Head(msgs).id]], a,
                UpdateKQueueInstance(Mask(C16_Found), d2,
                                     kq[sockfd[Head(msgs).id]], a), FALSE)

\* A SET_MASK that changes a non-empty interest into another is about to be
\* applied.
C16_Witness ==
  /\ C16_AtSetMask
  /\ Mask(C16_Found) # {}
  /\ \E d2 \in C16_Changed : Mask(d2) \notin {{}, Mask(C16_Found)}
  /\ Mask(SetPortAndMask(C16_Found, Head(msgs).dart_port, Head(msgs).events))
       \notin {{}, Mask(C16_Found)}

\* The worker dispatches an event of a live DescriptorInfo.
C17_Dispatches ==
  /\ pc = "events"
  /\ events # <<>>
  /\ events' = Tail(events)
  /\ Head(events).udata \in DOMAIN socket_map
  /\ ~Head(events).freed

\* The rows of the decoding table: listening READ, non-listening READ,
\* non-listening WRITE, each by EOF and fflags.
C17_Row(listening, filter, eof, fflags) ==
  CASE listening /\ filter = EVFILT_READ /\ eof /\ fflags -> {kErrorEvent}
    [] listening /\ filter = EVFILT_READ /\ eof /\ ~fflags -> {kCloseEvent}
    [] listening /\ filter = EVFILT_READ /\ ~eof -> {kInEvent}
    [] ~listening /\ filter = EVFILT_READ /\ eof /\ fflags -> {kErrorEvent}
    [] ~listening /\ filter = EVFILT_READ /\ eof /\ ~fflags ->
         {kInEvent, kCloseEvent}
    [] ~listening /\ filter = EVFILT_READ /\ ~eof -> {kInEvent}
    [] ~listening /\ filter = EVFILT_WRITE /\ eof /\ fflags -> {kErrorEvent}
    [] ~listening /\ filter = EVFILT_WRITE /\ ~(eof /\ fflags) -> {kOutEvent}

C18_ClosesListening ==
  /\ pc = "msgs"
  /\ msgs # <<>>
  /\ msgs' = Tail(msgs)
  /\ Head(msgs).command = kCloseCommand
  /\ Head(msgs).listening
  /\ sockfd[Head(msgs).id] # kClosedFd

\* The DescriptorInfo that CLOSE finds.
C18_Found ==
  GetDescriptorInfo(socket_map, sockfd[Head(msgs).id], TRUE)

\* C18: on CLOSE for a listening fd the DescriptorInfo is removed from the
\* map exactly when the registry's CloseSafe(socket) is true; when it is
\* false the DescriptorInfo stays in the map with the subscribers other than
\* the closing one, in their order, and the kernel's filters and the tracked
\* flag agree with its effective mask.
C18_RemovedIffCloseSafe ==
  [][C18_ClosesListening =>
       LET m == Head(msgs)
           fd == sockfd[m.id]
       IN /\ fd \notin DOMAIN socket_map' <=> CloseSafe(registry, m.id)
          /\ ~CloseSafe(registry, m.id) =>
               /\ fd \in DOMAIN socket_map'
               /\ [i \in DOMAIN socket_map'[fd].subs |->
                     socket_map'[fd].subs[i].port]
                    = SelectSeq([i \in DOMAIN C18_Found.subs |->
                                   C18_Found.subs[i].port],
                                LAMBDA p : p # m.dart_port)
               /\ kq'[fd] = FiltersOfMask(Mask(socket_map'[fd]))
               /\ socket_map'[fd].tracked <=> Mask(socket_map'[fd]) # {}]_vars

\* A listening socket was closed while another still listens on its fd: the
\* DescriptorInfo is still in the map, with a subscriber.
C18_Witness ==
  /\ lastOp.kind = "msg"
  /\ lastOp.command = kCloseCommand
  /\ lastOp.id \in ListeningSockets
  /\ lastOp.fd \in DOMAIN socket_map
  /\ socket_map[lastOp.fd].subs # <<>>

\* The worker takes the next of the messages it has read.
C19_TakesMessage ==
  /\ pc = "msgs"
  /\ msgs # <<>>
  /\ msgs' = Tail(msgs)

\* C19: for every message the worker reads whose id is a socket, it releases
\* exactly one reference on that socket, whatever the command and also when
\* the socket's fd is already -1 and the command is skipped; for TIMER_ID and
\* SHUTDOWN_ID it releases none, and it releases none at any other step.
C19_OneReleasePerMessage ==
  [][/\ C19_TakesMessage /\ Head(msgs).id \in Sockets =>
          refs' = [refs EXCEPT ![Head(msgs).id] = @ - 1]
     /\ C19_TakesMessage /\ Head(msgs).id \in {kTimerId, kShutdownId} =>
          refs' = refs
     /\ ~C19_TakesMessage /\ sent' = sent => refs' = refs]_vars

\* A message for a socket already closed was skipped, and the reference it
\* held is released.
C19_Witness ==
  /\ lastOp.kind = "skip"
  /\ refs[lastOp.id] = 0

\* The worker dispatches an event of a live DescriptorInfo.
C20_Dispatches ==
  /\ pc = "events"
  /\ events # <<>>
  /\ events' = Tail(events)
  /\ Head(events).udata \in DOMAIN socket_map
  /\ ~Head(events).freed

\* The event dispatched decodes to a mask with ERROR.
C20_DispatchesError ==
  /\ C20_Dispatches
  /\ kErrorEvent \in GetEvents(Head(events),
                                socket_map[Head(events).udata].listening)

\* No subscriber of the DescriptorInfo has interest left.
C20_Cleared(di) == \A i \in DOMAIN di.subs : di.subs[i].mask = {}

\* What an ERROR does: the mask goes to every subscriber, in their order,
\* their interest is cleared, the effective mask is empty and the fd has no
\* filter and no tracked flag left.
C20_NotifiesAll ==
  C20_DispatchesError =>
    LET fd == Head(events).udata
        mask == GetEvents(Head(events), socket_map[fd].listening)
    IN /\ lastPost' = [i \in DOMAIN socket_map[fd].subs |->
                         [port |-> socket_map[fd].subs[i].port, value |-> mask]]
       /\ lastPost' # <<>>
       /\ C20_Cleared(socket_map'[fd])
       /\ Mask(socket_map'[fd]) = {}
       /\ kq'[fd] = {}
       /\ ~socket_map'[fd].tracked

\* The kernel returns no event of an fd without filters, and the filters of
\* a DescriptorInfo whose interest is cleared come back only with a
\* SET_MASK applied to it.
C20_SilentUntilSetMask ==
  /\ pc = "kevent" =>
       \A i \in DOMAIN events' :
         events'[i].udata # NullUdata => kq[events'[i].udata] # {}
  /\ \A fd \in DOMAIN socket_map :
       C20_Cleared(socket_map[fd]) /\ kq[fd] = {} /\ kq'[fd] # {} =>
         /\ pc = "msgs"
         /\ msgs # <<>>
         /\ msgs' = Tail(msgs)
         /\ Head(msgs).command = kSetEventMaskCommand
         /\ sockfd[Head(msgs).id] = fd

\* The event dispatched just before this one was an ERROR of the same fd.
C20_AfterError ==
  /\ C20_Dispatches
  /\ lastOp.kind = "event"
  /\ lastOp.fd = Head(events).udata
  /\ lastPost # <<>>
  /\ kErrorEvent \in lastPost[1].value

\* C20 as stated: when the decoded mask contains ERROR it is posted to every
\* subscriber, all interest is cleared, the effective mask is 0 and the
\* update step deletes the fd's filters, and no further readiness event is
\* delivered for that DescriptorInfo until a new SET_MASK.
C20_Original ==
  [][/\ C20_NotifiesAll
     /\ C20_SilentUntilSetMask
     /\ C20_AfterError => lastPost' = <<>>]_vars

\* C20 amended: the same, with "the kernel returns no further readiness
\* event for its fd until a new SET_MASK" in place of "no further readiness
\* event is delivered": an event of the fd that the same query had already
\* returned is still dispatched.
C20_ErrorNotifiesAll ==
  [][C20_NotifiesAll /\ C20_SilentUntilSetMask]_vars

\* An ERROR on the listening fd has just been posted to two subscribers.
C20_Witness ==
  /\ lastOp.kind = "event"
  /\ lastOp.fd \in ListeningFds
  /\ Len(lastPost) >= 2
  /\ \A i \in DOMAIN lastPost : lastPost[i].value = {kErrorEvent}
  /\ kq[lastOp.fd] = {}

\* The worker dispatches an event of a live DescriptorInfo of a connected
\* (non-listening) socket.
C21_DispatchesSingle ==
  /\ pc = "events"
  /\ events # <<>>
  /\ events' = Tail(events)
  /\ Head(events).udata \in DOMAIN socket_map
  /\ ~Head(events).freed
  /\ ~socket_map[Head(events).udata].listening

\* C21 as stated: for a non-listening DescriptorInfo, once one readiness
\* event has been posted to its subscriber, no second one is posted until a
\* SET_MASK or RETURN_TOKEN for it has been applied.
C21_Original ==
  [][C21_DispatchesSingle /\ Head(events).udata \in delivered =>
       lastPost' = <<>>]_vars

\* C21 amended: for a non-listening DescriptorInfo every event the kernel
\* returns is posted exactly once, to its one subscriber, with the mask it
\* decodes to, whether or not an event was posted since the last SET_MASK or
\* RETURN_TOKEN; unless the mask has ERROR the dispatch leaves the
\* DescriptorInfo and its filters as they were, so nothing but the kernel's
\* edge triggering stands between one event and the next.
C21_OnePostPerKernelEvent ==
  [][C21_DispatchesSingle =>
       LET fd == Head(events).udata
           mask == GetEvents(Head(events), FALSE)
       IN /\ Len(socket_map[fd].subs) = 1
          /\ lastPost' = <<[port |-> socket_map[fd].subs[1].port,
                            value |-> mask]>>
          /\ kErrorEvent \notin mask =>
               /\ socket_map'[fd] = socket_map[fd]
               /\ kq'[fd] = kq[fd]]_vars

\* A later query has returned an event for the connected socket, with an
\* event posted for it and no SET_MASK or RETURN_TOKEN applied since.
C21_Witness ==
  /\ pc = "events"
  /\ lastOp.kind = "kevent"
  /\ events # <<>>
  /\ Head(events).udata = SocketOsFd["S1"]
  /\ ~Head(events).freed
  /\ Head(events).udata \in DOMAIN socket_map
  /\ Head(events).udata \in delivered

\* The worker applies a CLOSE to a socket whose fd is open and destroys the
\* DescriptorInfo.
C22_CloseDestroys ==
  /\ pc = "msgs"
  /\ msgs # <<>>
  /\ msgs' = Tail(msgs)
  /\ Head(msgs).command = kCloseCommand
  /\ sockfd[Head(msgs).id] # kClosedFd
  /\ sockfd[Head(msgs).id] \notin DOMAIN socket_map'

\* The DescriptorInfo that CLOSE finds, the requesting port removed.
C22_Remaining ==
  LET di == GetDescriptorInfo(socket_map, sockfd[Head(msgs).id],
                              Head(msgs).listening)
  IN IF Head(msgs).dart_port # ILLEGAL_PORT
     THEN RemovePort(di, Head(msgs).dart_port) ELSE di

\* C22: whenever the worker destroys a DescriptorInfo while handling CLOSE,
\* the effective mask left once the requesting port is removed is empty and
\* the kernel holds no filter for the fd from the update step on:
\* ASSERT(new_mask == 0) never fails, whatever port the CLOSE carries.
C22_Original ==
  [][C22_CloseDestroys =>
       /\ Mask(C22_Remaining) = {}
       /\ "HandleInterruptFd: new_mask == 0" \notin failed']_vars

\* C23: across a single operation of the worker (SET_MASK, RETURN_TOKEN,
\* CLOSE or the dispatch of an event) the effective mask of a listening
\* DescriptorInfo never goes from one non-empty value to a different
\* non-empty value, so that the delete-then-add branch of the update step is
\* taken for non-listening DescriptorInfos only: ASSERT(!IsListeningSocket)
\* never fails.
C23_Original ==
  [][/\ \A fd \in DOMAIN socket_map \cap DOMAIN socket_map' :
          (/\ socket_map[fd].listening
           /\ Mask(socket_map[fd]) # {}
           /\ Mask(socket_map'[fd]) # {}) =>
            Mask(socket_map'[fd]) = Mask(socket_map[fd])
     /\ "UpdateKQueueInstance: !IsListeningSocket" \notin failed']_vars

====
